---------------------------- MODULE Spec2Model ----------------------------
(***************************************************************************)
(* Block Kit SDK: the policy check of an action block's transaction        *)
(* proposals (controller/manager.py), the block's own pre-check            *)
(* (blocks/base.py) and the HTTP handler that keeps the cumulative spend   *)
(* (routes/__init__.py).                                                   *)
(*                                                                         *)
(* Amounts are Python floats in the source.  They are modelled as integer  *)
(* multiples of one tenth (1.0 is 10, 0.4 is 4); the smallest unit is 1.   *)
(* The fields action_type, currency and justification of a proposal take   *)
(* no part in any decision and are left out of the records.                *)
(***************************************************************************)
EXTENDS Integers, Sequences, FiniteSets, TLC

\* ----------------------------------------------------------------- bounds
MaxPerTx == 3
MaxCap == 5
MaxDays == 2
MaxAmount == 4
MaxFeeAmount == 2
MaxFees == 2

\* The values the inputs are drawn from.
Assets == {"BTC", "ETH"}
PolicyAssets == {"BTC"}
BlockIds == {"block-A", "block-B"}
ProposalIds == {"p1", "p2"}
Amounts == (-1)..MaxAmount
BodyAmounts == 0..MaxAmount
MaxNow == MaxDays + 1

\* Python's None, and a key a dict does not hold.
None == [none |-> TRUE]

\* No call has returned yet.
NoResponse == [status |-> "none", reason |-> None, proposal |-> None]

VARIABLES
    block_instance,            \* routes: the one block this server hosts
    current_cumulative_spend,  \* routes: the module-level spend counter
    now,                       \* days since the authorization window started
    request,                   \* the body of the latest POST /propose_transaction
    proposal_input,            \* the TransactionProposal of the latest call
    compliance,                \* (is_compliant, reason) of the latest manager call
    response,                  \* what the latest call returned
    pending,                   \* requests sent and not yet handled
    replies,                   \* request -> status, for the requests in pending's race
    analyst_controller,        \* wallet_controller: the analyst policy object
    operation,                 \* the arguments of the latest is_operation_compliant
    operation_compliance,      \* what the latest is_operation_compliant gave
    validator_call,            \* blocks: the decoding function called latest
    validator_input,           \* the data it was given
    validator_output,          \* the object it returned, or the error it raised
    constructor_call,          \* blocks/base: the class and arguments of a construction
    block,                     \* the block it gave, or the error it raised
    users_db,                  \* utils: the stored user documents, by ens_name
    tasks,                     \* the coroutines in flight: where each is, what it holds
    calls,                     \* the calls issued to the collaborator, in order
    db_manager                 \* the DatabaseManager's client and database cache

analyst_vars == <<analyst_controller, operation, operation_compliance>>
schema_vars == <<validator_call, validator_input, validator_output>>
blocks_vars == <<constructor_call, block>>
utils_vars == <<users_db, tasks, calls, db_manager>>

vars == <<block_instance, current_cumulative_spend, now, request, proposal_input,
          compliance, response, pending, replies, analyst_vars, schema_vars,
          blocks_vars, utils_vars>>

\* No analyst operation was checked and nothing was decoded.
AnalystIdle ==
    /\ analyst_controller = None
    /\ operation = None
    /\ operation_compliance = None

SchemaIdle ==
    /\ validator_call = "none"
    /\ validator_input = None
    /\ validator_output = None

\* No block was constructed.
BlocksIdle ==
    /\ constructor_call = None
    /\ block = None

\* No user is stored, no coroutine runs, no DatabaseManager is there.
UtilsIdle ==
    /\ users_db = None
    /\ tasks = None
    /\ calls = <<>>
    /\ db_manager = None

\* ------------------------------------------------------- controller/models
\* ControllerSettings: the four fields of the action policy.
ControllerSettings ==
    [authorized_duration_days : 1..MaxDays,
     asset_id : PolicyAssets,
     max_amount_per_transaction : 1..MaxPerTx,
     cumulative_max_amount : 1..MaxCap]

\* routes: the settings the module ships with (30 days, BTC, 1.0, 10.0).
DEFAULT_CONTROL_SETTINGS ==
    [authorized_duration_days |-> 30,
     asset_id |-> "BTC",
     max_amount_per_transaction |-> 10,
     cumulative_max_amount |-> 100]

SettingsChoices == ControllerSettings \cup {DEFAULT_CONTROL_SETTINGS}

\* ------------------------------------------------------------ blocks/models
\* A request body: the proposal's fields and a caller-supplied identifier,
\* which TransactionProposal does not declare.
Bodies ==
    [proposal_id : ProposalIds, block_id : BlockIds, asset_id : Assets,
     amount : BodyAmounts]

\* amount: PositiveFloat -- pydantic refuses a body whose amount is not > 0.
TransactionProposalValid(body) == body.amount > 0

\* Parsing keeps the declared fields; the undeclared proposal_id is dropped.
TransactionProposal(body) ==
    [block_id |-> body.block_id, asset_id |-> body.asset_id, amount |-> body.amount]

\* Every TransactionProposal object, validation bypassed or not.
Proposals == [block_id : BlockIds, asset_id : Assets, amount : Amounts]

\* model_dump(): the proposal's fields as a dict.
model_dump(proposal) ==
    [block_id |-> proposal.block_id, asset_id |-> proposal.asset_id,
     amount |-> proposal.amount]

\* ------------------------------------------------------- controller/manager
\* A reason string: its fixed text and the values formatted into it.
Reason(msg, args) == [msg |-> msg, args |-> args]

AssetMismatch == "Asset mismatch: Proposal for '{}', controller is for '{}'."
NonPositiveAmount == "Transaction amount must be positive."
PerTransactionLimitExceeded == "Amount {} exceeds max per transaction ({})."
CumulativeLimitExceeded == "Cumulative amount {} would exceed limit ({})."
Compliant == "Compliant"

\* Variants of is_proposal_compliant with one check wrong: without the
\* cumulative check, with the cap itself refused, with amount 0 let through.
is_proposal_compliant_no_cumulative(proposal, controller_settings, current_cumulative_spent) ==
    IF proposal.asset_id # controller_settings.asset_id
    THEN [is_compliant |-> FALSE,
          reason |-> Reason(AssetMismatch,
                            <<proposal.asset_id, controller_settings.asset_id>>)]
    ELSE IF proposal.amount <= 0
    THEN [is_compliant |-> FALSE, reason |-> Reason(NonPositiveAmount, <<>>)]
    ELSE IF proposal.amount > controller_settings.max_amount_per_transaction
    THEN [is_compliant |-> FALSE,
          reason |-> Reason(PerTransactionLimitExceeded,
                            <<proposal.amount,
                              controller_settings.max_amount_per_transaction>>)]
    ELSE [is_compliant |-> TRUE, reason |-> Reason(Compliant, <<>>)]

is_proposal_compliant_inclusive_cap(proposal, controller_settings, current_cumulative_spent) ==
    IF proposal.asset_id # controller_settings.asset_id
    THEN [is_compliant |-> FALSE,
          reason |-> Reason(AssetMismatch,
                            <<proposal.asset_id, controller_settings.asset_id>>)]
    ELSE IF proposal.amount <= 0
    THEN [is_compliant |-> FALSE, reason |-> Reason(NonPositiveAmount, <<>>)]
    ELSE IF proposal.amount > controller_settings.max_amount_per_transaction
    THEN [is_compliant |-> FALSE,
          reason |-> Reason(PerTransactionLimitExceeded,
                            <<proposal.amount,
                              controller_settings.max_amount_per_transaction>>)]
    ELSE IF (current_cumulative_spent + proposal.amount)
                >= controller_settings.cumulative_max_amount
    THEN [is_compliant |-> FALSE,
          reason |-> Reason(CumulativeLimitExceeded,
                            <<current_cumulative_spent + proposal.amount,
                              controller_settings.cumulative_max_amount>>)]
    ELSE [is_compliant |-> TRUE, reason |-> Reason(Compliant, <<>>)]

is_proposal_compliant_zero_passes(proposal, controller_settings, current_cumulative_spent) ==
    IF proposal.asset_id # controller_settings.asset_id
    THEN [is_compliant |-> FALSE,
          reason |-> Reason(AssetMismatch,
                            <<proposal.asset_id, controller_settings.asset_id>>)]
    ELSE IF proposal.amount < 0
    THEN [is_compliant |-> FALSE, reason |-> Reason(NonPositiveAmount, <<>>)]
    ELSE IF proposal.amount > controller_settings.max_amount_per_transaction
    THEN [is_compliant |-> FALSE,
          reason |-> Reason(PerTransactionLimitExceeded,
                            <<proposal.amount,
                              controller_settings.max_amount_per_transaction>>)]
    ELSE IF (current_cumulative_spent + proposal.amount)
                > controller_settings.cumulative_max_amount
    THEN [is_compliant |-> FALSE,
          reason |-> Reason(CumulativeLimitExceeded,
                            <<current_cumulative_spent + proposal.amount,
                              controller_settings.cumulative_max_amount>>)]
    ELSE [is_compliant |-> TRUE, reason |-> Reason(Compliant, <<>>)]

is_proposal_compliant(proposal, controller_settings, current_cumulative_spent) ==
    IF proposal.asset_id # controller_settings.asset_id
    THEN [is_compliant |-> FALSE,
          reason |-> Reason(AssetMismatch,
                            <<proposal.asset_id, controller_settings.asset_id>>)]
    ELSE IF proposal.amount <= 0
    THEN [is_compliant |-> FALSE, reason |-> Reason(NonPositiveAmount, <<>>)]
    ELSE IF proposal.amount > controller_settings.max_amount_per_transaction
    THEN [is_compliant |-> FALSE,
          reason |-> Reason(PerTransactionLimitExceeded,
                            <<proposal.amount,
                              controller_settings.max_amount_per_transaction>>)]
    ELSE IF (current_cumulative_spent + proposal.amount)
                > controller_settings.cumulative_max_amount
    THEN [is_compliant |-> FALSE,
          reason |-> Reason(CumulativeLimitExceeded,
                            <<current_cumulative_spent + proposal.amount,
                              controller_settings.cumulative_max_amount>>)]
    \* authorized_duration_days is not looked at: "would need to be checked
    \* by the wallet core".
    ELSE [is_compliant |-> TRUE, reason |-> Reason(Compliant, <<>>)]

\* -------------------------------------------------------------- blocks/base
\* BaseBlock.propose_transaction: the standard structure, no check.
BaseBlock_propose_transaction(proposal_data) ==
    [status |-> "proposed", reason |-> None, proposal |-> model_dump(proposal_data)]

\* A variant of the pre-check that refuses an amount equal to the limit.
ActionBlock_propose_transaction_strict(settings, proposal_data) ==
    IF proposal_data.asset_id # settings.asset_id
    THEN [status |-> "rejected_by_block_pre_check",
          reason |-> Reason("Asset mismatch with block's control settings.", <<>>),
          proposal |-> model_dump(proposal_data)]
    ELSE IF proposal_data.amount >= settings.max_amount_per_transaction
    THEN [status |-> "rejected_by_block_pre_check",
          reason |-> Reason("Exceeds maximum amount per transaction defined in block's control settings.", <<>>),
          proposal |-> model_dump(proposal_data)]
    ELSE BaseBlock_propose_transaction(proposal_data)

\* ActionBlock.propose_transaction: asset and per-transaction pre-check.
\* blocks/base.py names the attribute control_settings, routes names it
\* controller_settings; it is the same settings object.
ActionBlock_propose_transaction(settings, proposal_data) ==
    IF proposal_data.asset_id # settings.asset_id
    THEN [status |-> "rejected_by_block_pre_check",
          reason |-> Reason("Asset mismatch with block's control settings.", <<>>),
          proposal |-> model_dump(proposal_data)]
    ELSE IF proposal_data.amount > settings.max_amount_per_transaction
    THEN [status |-> "rejected_by_block_pre_check",
          reason |-> Reason("Exceeds maximum amount per transaction defined in block's control settings.", <<>>),
          proposal |-> model_dump(proposal_data)]
    ELSE BaseBlock_propose_transaction(proposal_data)

\* ------------------------------------------------------------------ routes
IsActionBlock == block_instance.block_type = "action"
IsAnalystBlock == block_instance.block_type = "analyst"

\* The module's start: one block instance, the counter at 0.0.
Init ==
    /\ block_instance \in
          [block_type : {"action"}, controller_settings : SettingsChoices]
          \cup {[block_type |-> "analyst", controller_settings |-> None]}
    /\ current_cumulative_spend = 0
    /\ now = 0
    /\ request = None
    /\ proposal_input = None
    /\ compliance = None
    /\ response = NoResponse
    /\ pending = {}
    /\ replies = {}
    /\ AnalystIdle
    /\ SchemaIdle
    /\ BlocksIdle
    /\ UtilsIdle

\* Variants of apply_spend: the amount counted twice, the amount taken off.
apply_spend_twice(spend, proposal) == spend + 2 * proposal.amount

apply_spend_refund(spend, proposal) == spend - proposal.amount

\* The spend added by an accepted proposal.
apply_spend(spend, proposal) == spend + proposal.amount

\* raise HTTPException(status_code, detail): the call ends in a fault.
HTTPException(status_code, detail) ==
    [status |-> "raised", reason |-> Reason(detail, <<status_code>>), proposal |-> None]

\* A variant of the handler that takes an accepted amount off the cap
\* kept in the settings as well.
propose_transaction_endpoint_spending_cap(body) ==
    /\ request' = body
    /\ IF ~TransactionProposalValid(body)
       THEN \* FastAPI answers 422 before the handler runs.
            /\ response' = [status |-> "unprocessable_entity",
                            reason |-> Reason("Input should be greater than 0", <<>>),
                            proposal |-> None]
            /\ proposal_input' = None
            /\ compliance' = None
            /\ UNCHANGED current_cumulative_spend
       ELSE LET proposal == TransactionProposal(body) IN
            /\ proposal_input' = proposal
            /\ IF IsActionBlock /\ block_instance.controller_settings = None
               THEN /\ compliance' = None
                    /\ response' = HTTPException(
                           500, "Internal error: Controllers not configured for action block.")
                    /\ UNCHANGED current_cumulative_spend
               ELSE IF IsActionBlock
               THEN LET result == is_proposal_compliant(
                                      proposal, block_instance.controller_settings,
                                      current_cumulative_spend)
                        answer == ActionBlock_propose_transaction(
                                      block_instance.controller_settings, proposal)
                    IN  /\ compliance' = result
                        /\ IF ~result.is_compliant
                           THEN /\ response' = [status |-> "rejected_by_library_core",
                                                reason |-> result.reason,
                                                proposal |-> model_dump(proposal)]
                                /\ UNCHANGED current_cumulative_spend
                           ELSE /\ response' = answer
                                /\ IF answer.status = "proposed"
                                   THEN current_cumulative_spend' =
                                            apply_spend(current_cumulative_spend, proposal)
                                   ELSE UNCHANGED current_cumulative_spend
               ELSE IF IsAnalystBlock
               THEN /\ compliance' = None
                    /\ response' = BaseBlock_propose_transaction(proposal)
                    /\ UNCHANGED current_cumulative_spend
               ELSE /\ compliance' = None
                    /\ response' = HTTPException(
                           500, "Internal error: Unknown block instance type.")
                    /\ UNCHANGED current_cumulative_spend
    /\ block_instance' =
           IF current_cumulative_spend' # current_cumulative_spend
           THEN [block_instance EXCEPT !.controller_settings.cumulative_max_amount =
                     @ - (current_cumulative_spend' - current_cumulative_spend)]
           ELSE block_instance

\* POST /propose_transaction with one body; no await inside, so one step.
propose_transaction_endpoint(body) ==
    /\ request' = body
    /\ IF ~TransactionProposalValid(body)
       THEN \* FastAPI answers 422 before the handler runs.
            /\ response' = [status |-> "unprocessable_entity",
                            reason |-> Reason("Input should be greater than 0", <<>>),
                            proposal |-> None]
            /\ proposal_input' = None
            /\ compliance' = None
            /\ UNCHANGED current_cumulative_spend
       ELSE LET proposal == TransactionProposal(body) IN
            /\ proposal_input' = proposal
            /\ IF IsActionBlock /\ block_instance.controller_settings = None
               THEN /\ compliance' = None
                    /\ response' = HTTPException(
                           500, "Internal error: Controllers not configured for action block.")
                    /\ UNCHANGED current_cumulative_spend
               ELSE IF IsActionBlock
               THEN LET result == is_proposal_compliant(
                                      proposal, block_instance.controller_settings,
                                      current_cumulative_spend)
                        answer == ActionBlock_propose_transaction(
                                      block_instance.controller_settings, proposal)
                    IN  /\ compliance' = result
                        /\ IF ~result.is_compliant
                           THEN /\ response' = [status |-> "rejected_by_library_core",
                                                reason |-> result.reason,
                                                proposal |-> model_dump(proposal)]
                                /\ UNCHANGED current_cumulative_spend
                           ELSE /\ response' = answer
                                /\ IF answer.status = "proposed"
                                   THEN current_cumulative_spend' =
                                            apply_spend(current_cumulative_spend, proposal)
                                   ELSE UNCHANGED current_cumulative_spend
               ELSE IF IsAnalystBlock
               THEN /\ compliance' = None
                    /\ response' = BaseBlock_propose_transaction(proposal)
                    /\ UNCHANGED current_cumulative_spend
               ELSE /\ compliance' = None
                    /\ response' = HTTPException(
                           500, "Internal error: Unknown block instance type.")
                    /\ UNCHANGED current_cumulative_spend
    /\ UNCHANGED block_instance

\* A caller posts a body and the handler runs.
Request ==
    \E body \in Bodies :
        /\ propose_transaction_endpoint(body)
        /\ UNCHANGED <<now, pending, replies, analyst_vars, schema_vars, blocks_vars, utils_vars>>

\* The window is over: more than authorized_duration_days since its start.
window_expired ==
    /\ block_instance.block_type = "action"
    /\ now > block_instance.controller_settings.authorized_duration_days

\* A day passes.
Tick ==
    /\ now < MaxNow
    /\ now' = now + 1
    /\ UNCHANGED <<block_instance, current_cumulative_spend, request, proposal_input,
                   compliance, response, pending, replies, analyst_vars, schema_vars, blocks_vars, utils_vars>>

Next == Request \/ Tick

Spec == Init /\ [][Next]_vars

\* --------------------------------------------- the manager's check, alone
\* (control/manager.py holds the same function under the older names.)
\* is_proposal_compliant takes any proposal object, any settings and any
\* cumulative-spent figure; the day of the call is part of the surroundings.
InitCompliance ==
    /\ block_instance \in
          [block_type : {"action"}, controller_settings : SettingsChoices]
    /\ current_cumulative_spend \in
          0..(block_instance.controller_settings.cumulative_max_amount + 1)
    /\ now \in 0..MaxNow
    /\ request = None
    /\ proposal_input = None
    /\ compliance = None
    /\ response = NoResponse
    /\ pending = {}
    /\ replies = {}
    /\ AnalystIdle
    /\ SchemaIdle
    /\ BlocksIdle
    /\ UtilsIdle

\* One call of ControllerManager.is_proposal_compliant.
Evaluate ==
    \E proposal \in Proposals :
        /\ proposal_input' = proposal
        /\ compliance' = is_proposal_compliant(
                             proposal, block_instance.controller_settings,
                             current_cumulative_spend)
        /\ UNCHANGED <<block_instance, current_cumulative_spend, now, request,
                       response, pending, replies, analyst_vars, schema_vars, blocks_vars, utils_vars>>

SpecCompliance == InitCompliance /\ [][Evaluate]_vars

\* ------------------------------------------- two requests in flight at once
\* A body the settings and the spend so far would let through on its own.
FitsAlone(body, settings, spent) ==
    /\ body.asset_id = settings.asset_id
    /\ body.amount > 0
    /\ body.amount <= settings.max_amount_per_transaction
    /\ spent + body.amount <= settings.cumulative_max_amount

\* Two such bodies are in flight, and together they do not fit.  Any spend
\* from 0 to the cap is one a run of one-unit proposals leaves behind.
InitRace ==
    /\ block_instance \in
          [block_type : {"action"}, controller_settings : SettingsChoices]
    /\ current_cumulative_spend \in
          0..block_instance.controller_settings.cumulative_max_amount
    /\ now = 0
    /\ request = None
    /\ proposal_input = None
    /\ compliance = None
    /\ response = NoResponse
    /\ replies = {}
    /\ AnalystIdle
    /\ SchemaIdle
    /\ BlocksIdle
    /\ UtilsIdle
    /\ \E b1, b2 \in Bodies :
          /\ b1.proposal_id = "p1"
          /\ b2.proposal_id = "p2"
          /\ FitsAlone(b1, block_instance.controller_settings, current_cumulative_spend)
          /\ FitsAlone(b2, block_instance.controller_settings, current_cumulative_spend)
          /\ current_cumulative_spend + b1.amount + b2.amount
                > block_instance.controller_settings.cumulative_max_amount
          /\ pending = {b1, b2}

\* The event loop runs the handler for one of the waiting requests.  The
\* handler is a coroutine without an await, so it runs to its return.
Deliver ==
    \E body \in pending :
        /\ propose_transaction_endpoint(body)
        /\ pending' = pending \ {body}
        /\ replies' = replies \cup {<<body.proposal_id, response'.status>>}
        /\ UNCHANGED <<now, analyst_vars, schema_vars, blocks_vars, utils_vars>>

SpecRace == InitRace /\ [][Deliver]_vars

\* ---------------------------------------------------- wallet_controller
\* Optional[T]: None, or a value that is there.
Some(v) == [value |-> v]

\* The remaining days a caller can pass: none, or a number it recomputed
\* from the window's start; 0 is a window that has run out.
RemainingDays == {None} \cup {Some(d) : d \in 0..MaxDays}

\* wallet_controller/models: the two controller classes.  A BaseController
\* has no advice_allowed and no portfolio_access attribute.
BaseController ==
    [cls : {"BaseController"}, authorized : BOOLEAN,
     authorized_duration_days : RemainingDays]

AnalystController ==
    [cls : {"AnalystController"}, authorized : BOOLEAN,
     authorized_duration_days : RemainingDays,
     portfolio_access : BOOLEAN, advice_allowed : BOOLEAN]

\* operation_type is a str; message_type is an Optional[str].
OperationTypes == {"chat_message", "trade"}
MessageTypes == {None} \cup {Some(m) : m \in {"", "advice", "analysis", "opinion"}}

Operations == [operation_type : OperationTypes, message_type : MessageTypes]

OperationNotAuthorized == "Block is not authorized"
OperationAuthorizationExpired == "Authorization has expired"
InvalidSettingsType == "Invalid controller settings type."
InvalidOperationType == "Invalid operation type: {}"
AdviceNotPermitted == "Block is not authorized to provide investment advice"
InvalidMessageType == "Invalid message type: {}"

\* raise AttributeError: the call ends in a fault instead of a pair.
AttributeError(attribute) ==
    [raised |-> "AttributeError", reason |-> Reason("no attribute '{}'", <<attribute>>)]

\* Python's truth value of an Optional[str]: None and "" are false.
Truthy(optional_str) == optional_str # None /\ optional_str.value # ""

\* BaseWalletInterface.is_operation_compliant: authorized, then the days.
BaseWalletInterface_is_operation_compliant(controller_settings, operation_type, message_type) ==
    IF ~controller_settings.authorized
    THEN [is_compliant |-> FALSE, reason |-> Reason(OperationNotAuthorized, <<>>)]
    ELSE IF /\ controller_settings.authorized_duration_days # None
            /\ controller_settings.authorized_duration_days.value <= 0
    THEN [is_compliant |-> FALSE,
          reason |-> Reason(OperationAuthorizationExpired, <<>>)]
    ELSE [is_compliant |-> TRUE, reason |-> Reason(Compliant, <<>>)]

\* A variant of AnalystWalletInterface.is_operation_compliant without the
\* isinstance check: advice_allowed is read off whatever object came.
is_operation_compliant_unchecked_type(controller_settings, operation_type, message_type) ==
    LET base == BaseWalletInterface_is_operation_compliant(
                    controller_settings, operation_type, message_type)
    IN  IF ~base.is_compliant THEN base
        ELSE IF operation_type # "chat_message"
        THEN [is_compliant |-> FALSE,
              reason |-> Reason(InvalidOperationType, <<operation_type>>)]
        ELSE IF Truthy(message_type)
        THEN IF message_type.value = "advice"
             THEN IF controller_settings.cls # "AnalystController"
                  THEN AttributeError("advice_allowed")
                  ELSE IF ~controller_settings.advice_allowed
                  THEN [is_compliant |-> FALSE,
                        reason |-> Reason(AdviceNotPermitted, <<>>)]
                  ELSE [is_compliant |-> TRUE, reason |-> Reason(Compliant, <<>>)]
             ELSE IF message_type.value \notin {"advice", "analysis"}
             THEN [is_compliant |-> FALSE,
                   reason |-> Reason(InvalidMessageType, <<message_type.value>>)]
             ELSE [is_compliant |-> TRUE, reason |-> Reason(Compliant, <<>>)]
        ELSE [is_compliant |-> TRUE, reason |-> Reason(Compliant, <<>>)]

\* AnalystWalletInterface.is_operation_compliant.
is_operation_compliant(controller_settings, operation_type, message_type) ==
    IF controller_settings.cls # "AnalystController"
    THEN [is_compliant |-> FALSE, reason |-> Reason(InvalidSettingsType, <<>>)]
    ELSE LET base == BaseWalletInterface_is_operation_compliant(
                         controller_settings, operation_type, message_type)
         IN  IF ~base.is_compliant THEN base
             ELSE IF operation_type # "chat_message"
             THEN [is_compliant |-> FALSE,
                   reason |-> Reason(InvalidOperationType, <<operation_type>>)]
             ELSE IF Truthy(message_type)
             THEN IF message_type.value = "advice" /\ ~controller_settings.advice_allowed
                  THEN [is_compliant |-> FALSE,
                        reason |-> Reason(AdviceNotPermitted, <<>>)]
                  ELSE IF message_type.value \notin {"advice", "analysis"}
                  THEN [is_compliant |-> FALSE,
                        reason |-> Reason(InvalidMessageType, <<message_type.value>>)]
                  ELSE [is_compliant |-> TRUE, reason |-> Reason(Compliant, <<>>)]
             ELSE [is_compliant |-> TRUE, reason |-> Reason(Compliant, <<>>)]

\* The policy decisions together: an instance takes proposals through the
\* handler, and an analyst instance has its operations checked against the
\* controller object its caller holds.
InitDecisions ==
    /\ block_instance \in
          [block_type : {"action"}, controller_settings : SettingsChoices]
          \cup {[block_type |-> "analyst", controller_settings |-> None]}
    /\ current_cumulative_spend = 0
    /\ now = 0
    /\ request = None
    /\ proposal_input = None
    /\ compliance = None
    /\ response = NoResponse
    /\ pending = {}
    /\ replies = {}
    /\ IF IsAnalystBlock
       THEN analyst_controller \in AnalystController \cup BaseController
       ELSE analyst_controller = None
    /\ operation = None
    /\ operation_compliance = None
    /\ SchemaIdle
    /\ BlocksIdle
    /\ UtilsIdle

\* A variant of CheckOperation that uses up a day of the authorization.
CheckOperationConsuming ==
    /\ IsAnalystBlock
    /\ \E op \in Operations :
        /\ operation' = op
        /\ operation_compliance' =
               is_operation_compliant(analyst_controller, op.operation_type,
                                      op.message_type)
        /\ analyst_controller' =
               IF \/ analyst_controller.authorized_duration_days = None
                  \/ analyst_controller.authorized_duration_days.value <= 0
               THEN analyst_controller
               ELSE [analyst_controller EXCEPT !.authorized_duration_days =
                         Some(analyst_controller.authorized_duration_days.value - 1)]
    /\ UNCHANGED <<block_instance, current_cumulative_spend, now, request,
                   proposal_input, compliance, response, pending, replies,
                   schema_vars, blocks_vars, utils_vars>>

\* ControllerManager.is_operation_compliant, called for one operation.
CheckOperation ==
    /\ IsAnalystBlock
    /\ \E op \in Operations :
        /\ operation' = op
        /\ operation_compliance' =
               is_operation_compliant(analyst_controller, op.operation_type,
                                      op.message_type)
    /\ UNCHANGED <<block_instance, current_cumulative_spend, now, request,
                   proposal_input, compliance, response, pending, replies,
                   analyst_controller, schema_vars, blocks_vars, utils_vars>>

NextDecisions == Request \/ CheckOperation

SpecDecisions == InitDecisions /\ [][NextDecisions]_vars

\* ------------------------------------------------------------ blocks: fees
\* A dict is a function from its keys; a key that is missing is not in its
\* domain.  A list is kept as [items |-> <<...>>], a model object carries
\* its class in cls.  The fields name, version, publisher, description,
\* license and allowed_jurisdictions of a manifest and the description of a
\* fee are left out.  Fee amounts are whole units.
Missing == "<missing>"

Has(data, key) == key \in DOMAIN data
IsList(value) == Has(value, "items")
IsObject(value) == Has(value, "cls")
IsRaised(outcome) == Has(outcome, "raised")

WithKey(data, key, choice) == IF choice = Missing THEN data ELSE data @@ (key :> choice)

FIXED_ONE_TIME == "fixed_one_time"
FIXED_RECURRING == "fixed_recurring"
RecurringInterval == {"monthly", "quarterly", "annually"}
FeeCurrency == {"DAI", "USDC", "USDT", "AMPR", "ETH", "BTC", "SOL"}

\* A variant of the block types in which "agent" is one more of them.
BlockTypesWithAgent == {"analyst", "action", "custodial", "agent"}

\* Manifest.block_type: Literal["analyst", "action", "custodial"].
BlockTypes == {"analyst", "action", "custodial"}

\* What callers send.
FeeTypeChoices == {Missing, FIXED_ONE_TIME, FIXED_RECURRING, "percentage"}
IntervalChoices == {Missing, "monthly", "quarterly", "annually", "daily"}
CurrencyChoices == {"BTC", "XRP"}
BlockTypeChoices == {"action", "agent"}
OtherBlockTypeChoices == {"analyst", "custodial", "Action", ""}
FeeAmounts == (-1)..MaxFeeAmount

FeeData ==
    { WithKey(WithKey(base, "fee_type", t), "interval", i) :
          base \in [fee_currency : CurrencyChoices, amount : FeeAmounts],
          t \in FeeTypeChoices, i \in IntervalChoices }

\* The error pydantic raises out of a validation.
ValidationError(msg) == [raised |-> "ValidationError", reason |-> msg]

\* `raise ValidationError("...")` in the validator: pydantic's ValidationError
\* has no constructor to call, so the expression itself raises a TypeError,
\* which no `except ValidationError` catches.
raise_ValidationError(msg) == [raised |-> "TypeError", reason |-> "No constructor defined"]

\* A variant of OneTimeFixedFee.model_validate that lets amount 0 through.
OneTimeFixedFee_model_validate_zero_amount(data) ==
    IF /\ Has(data, "fee_currency") /\ data.fee_currency \in FeeCurrency
       /\ Has(data, "fee_type") /\ data.fee_type = FIXED_ONE_TIME
       /\ Has(data, "amount") /\ data.amount >= 0
    THEN [cls |-> "OneTimeFixedFee", fee_currency |-> data.fee_currency,
          fee_type |-> data.fee_type, amount |-> data.amount]
    ELSE ValidationError("validation error for OneTimeFixedFee")

\* OneTimeFixedFee.model_validate on a dict; keys it does not know are
\* ignored.
OneTimeFixedFee_model_validate(data) ==
    IF /\ Has(data, "fee_currency") /\ data.fee_currency \in FeeCurrency
       /\ Has(data, "fee_type") /\ data.fee_type = FIXED_ONE_TIME
       /\ Has(data, "amount") /\ data.amount > 0
    THEN [cls |-> "OneTimeFixedFee", fee_currency |-> data.fee_currency,
          fee_type |-> data.fee_type, amount |-> data.amount]
    ELSE ValidationError("validation error for OneTimeFixedFee")

\* RecurringFixedFee.model_validate on a dict.
RecurringFixedFee_model_validate(data) ==
    IF /\ Has(data, "fee_currency") /\ data.fee_currency \in FeeCurrency
       /\ Has(data, "fee_type") /\ data.fee_type = FIXED_RECURRING
       /\ Has(data, "amount") /\ data.amount > 0
       /\ Has(data, "interval") /\ data.interval \in RecurringInterval
    THEN [cls |-> "RecurringFixedFee", fee_currency |-> data.fee_currency,
          fee_type |-> data.fee_type, amount |-> data.amount,
          interval |-> data.interval]
    ELSE ValidationError("validation error for RecurringFixedFee")

\* A variant of a fee's model_dump that loses the interval.
Fee_model_dump_without_interval(fee) ==
    [key \in DOMAIN fee \ {"cls", "interval"} |-> fee[key]]

\* model_dump of a fee object: the dict of its fields.
Fee_model_dump(fee) == [key \in DOMAIN fee \ {"cls"} |-> fee[key]]

\* ------------------------------------------------------- blocks: manifest
\* A few fees to build the longer lists from.
SampleFees ==
    { [fee_currency |-> "BTC", amount |-> 1, fee_type |-> FIXED_ONE_TIME],
      [fee_currency |-> "BTC", amount |-> 1, fee_type |-> FIXED_RECURRING,
       interval |-> "monthly"],
      [cls |-> "OneTimeFixedFee", fee_currency |-> "BTC",
       fee_type |-> FIXED_ONE_TIME, amount |-> 1] }

List(items) == [items |-> items]

\* What the fee key of a manifest can hold: None, a dict, a fee object, or a
\* list of those.
FeeValues ==
    {None} \cup FeeData \cup SampleFees
    \cup {List(<<>>)}
    \cup {List(<<f>>) : f \in FeeData \cup SampleFees}
    \cup UNION {{List(l) : l \in [1..n -> SampleFees]} : n \in 2..MaxFees}

ManifestData ==
    [block_type : BlockTypeChoices \cup OtherBlockTypeChoices]
    \cup [block_type : BlockTypeChoices, fee : FeeValues]

\* A variant of check_fee_type that leaves a one-element list as it is.
check_fee_type_keeping_list(data) ==
    IF Has(data, "fee") /\ IsList(data.fee) /\ Len(data.fee.items) > 1
    THEN [raised |-> "ValueError", reason |-> "Only one type of fee is allowed"]
    ELSE data

\* Manifest.check_fee_type, the validator that runs before the fields'.
check_fee_type(data) ==
    IF Has(data, "fee") /\ IsList(data.fee)
    THEN IF Len(data.fee.items) > 1
         THEN [raised |-> "ValueError", reason |-> "Only one type of fee is allowed"]
         ELSE IF Len(data.fee.items) = 1
         THEN [data EXCEPT !.fee = data.fee.items[1]]
         ELSE data
    ELSE data

\* The fee field, Optional[Union[OneTimeFixedFee, RecurringFixedFee]]: None, an
\* object of one of the classes, or a dict one of the classes validates.
Manifest_fee_validate(value) ==
    IF value = None THEN None
    ELSE IF IsList(value)
    THEN ValidationError("Input should be a valid dictionary or instance")
    ELSE IF IsObject(value) THEN value
    ELSE LET one == OneTimeFixedFee_model_validate(value)
             rec == RecurringFixedFee_model_validate(value)
         IN  IF ~IsRaised(one) THEN one
             ELSE IF ~IsRaised(rec) THEN rec
             ELSE ValidationError("validation errors for Manifest fee")

\* Manifest.model_validate.
Manifest_model_validate(data) ==
    LET checked == check_fee_type(data) IN
    IF IsRaised(checked) THEN ValidationError(checked.reason)
    ELSE LET fee == IF Has(checked, "fee")
                    THEN Manifest_fee_validate(checked.fee)
                    ELSE None
         IN  IF checked.block_type \notin BlockTypes
             THEN ValidationError("Input should be 'analyst', 'action' or 'custodial'")
             ELSE IF IsRaised(fee) THEN fee
             ELSE [cls |-> "Manifest", block_type |-> checked.block_type, fee |-> fee]

\* ------------------------------------------------------- blocks/validator
\* SDKValidator.validate_manifest.
validate_manifest(manifest_data) ==
    LET manifest == Manifest_model_validate(manifest_data) IN
    IF IsRaised(manifest) /\ manifest.raised = "ValidationError"
    THEN raise_ValidationError("Manifest validation failed: {}")
    ELSE manifest

\* SDKValidator.validate_fee.
validate_fee(fee_data) ==
    LET fee_type == IF Has(fee_data, "fee_type") THEN fee_data.fee_type ELSE Missing
        outcome == IF fee_type = FIXED_ONE_TIME
                   THEN OneTimeFixedFee_model_validate(fee_data)
                   ELSE IF fee_type = FIXED_RECURRING
                   THEN RecurringFixedFee_model_validate(fee_data)
                   ELSE raise_ValidationError("Unknown fee type: {}")
    IN  IF IsRaised(outcome) /\ outcome.raised = "ValidationError"
        THEN raise_ValidationError("Fee validation failed: {}")
        ELSE outcome

\* SDKValidator.validate_config.
validate_config(config_data) ==
    LET validated_manifest == validate_manifest(config_data) IN
    IF IsRaised(validated_manifest)
    THEN IF validated_manifest.raised = "ValidationError"
         THEN raise_ValidationError("Configuration validation failed: {}")
         ELSE validated_manifest
    ELSE IF validated_manifest.fee # None
    THEN LET validated_fee == validate_fee(Fee_model_dump(validated_manifest.fee)) IN
         IF IsRaised(validated_fee)
         THEN IF validated_fee.raised = "ValidationError"
              THEN raise_ValidationError("Configuration validation failed: {}")
              ELSE validated_fee
         ELSE [manifest |-> validated_manifest, fee |-> validated_fee]
    ELSE [manifest |-> validated_manifest]

\* The decoding functions, each called on what a caller can send.
InitSchema ==
    /\ block_instance = [block_type |-> "analyst", controller_settings |-> None]
    /\ current_cumulative_spend = 0
    /\ now = 0
    /\ request = None
    /\ proposal_input = None
    /\ compliance = None
    /\ response = NoResponse
    /\ pending = {}
    /\ replies = {}
    /\ AnalystIdle
    /\ SchemaIdle
    /\ BlocksIdle
    /\ UtilsIdle

Others == <<block_instance, current_cumulative_spend, now, request, proposal_input,
            compliance, response, pending, replies, analyst_vars, blocks_vars, utils_vars>>

DecodeManifest ==
    \E data \in ManifestData :
        /\ validator_call' = "Manifest.model_validate"
        /\ validator_input' = data
        /\ validator_output' = Manifest_model_validate(data)
        /\ UNCHANGED Others

ValidateManifest ==
    \E data \in ManifestData :
        /\ validator_call' = "validate_manifest"
        /\ validator_input' = data
        /\ validator_output' = validate_manifest(data)
        /\ UNCHANGED Others

ValidateFee ==
    \E data \in FeeData :
        /\ validator_call' = "validate_fee"
        /\ validator_input' = data
        /\ validator_output' = validate_fee(data)
        /\ UNCHANGED Others

ValidateConfig ==
    \E data \in ManifestData :
        /\ validator_call' = "validate_config"
        /\ validator_input' = data
        /\ validator_output' = validate_config(data)
        /\ UNCHANGED Others

NextSchema == DecodeManifest \/ ValidateManifest \/ ValidateFee \/ ValidateConfig

SpecSchema == InitSchema /\ [][NextSchema]_vars

\* --------------------------------------------- blocks/base: construction
\* The manifests there can be: what Manifest.model_validate lets through.
Manifests ==
    { m \in { Manifest_model_validate(data) : data \in ManifestData } : ~IsRaised(m) }

ValueError(msg) == [raised |-> "ValueError", reason |-> msg]

\* BaseBlock.__init__: the attributes every block gets.
BaseBlock_init(manifest) == [manifest |-> manifest, backend_ws |-> None]

\* AnalystBlock.__init__.
AnalystBlock_init(manifest) ==
    IF manifest.block_type # "analyst"
    THEN ValueError("Manifest 'block_type' must be 'analyst' for AnalystBlock.")
    ELSE BaseBlock_init(manifest) @@ [cls |-> "AnalystBlock"]

\* A variant of ActionBlock.__init__ that takes every manifest.
ActionBlock_init_unchecked(manifest, control_settings) ==
    BaseBlock_init(manifest)
        @@ [cls |-> "ActionBlock", control_settings |-> control_settings]

\* ActionBlock.__init__.
ActionBlock_init(manifest, control_settings) ==
    IF manifest.block_type # "action"
    THEN ValueError("Manifest 'block_type' must be 'action' for ActionBlock.")
    ELSE BaseBlock_init(manifest)
             @@ [cls |-> "ActionBlock", control_settings |-> control_settings]

InitBlocks ==
    /\ block_instance = [block_type |-> "analyst", controller_settings |-> None]
    /\ current_cumulative_spend = 0
    /\ now = 0
    /\ request = None
    /\ proposal_input = None
    /\ compliance = None
    /\ response = NoResponse
    /\ pending = {}
    /\ replies = {}
    /\ AnalystIdle
    /\ SchemaIdle
    /\ BlocksIdle
    /\ UtilsIdle

NotBlocks == <<block_instance, current_cumulative_spend, now, request, proposal_input,
               compliance, response, pending, replies, analyst_vars, schema_vars,
               utils_vars>>

ConstructAnalystBlock ==
    \E manifest \in Manifests :
        /\ constructor_call' = [cls |-> "AnalystBlock", manifest |-> manifest]
        /\ block' = AnalystBlock_init(manifest)
        /\ UNCHANGED NotBlocks

ConstructActionBlock ==
    \E manifest \in Manifests, control_settings \in SettingsChoices :
        /\ constructor_call' = [cls |-> "ActionBlock", manifest |-> manifest,
                                control_settings |-> control_settings]
        /\ block' = ActionBlock_init(manifest, control_settings)
        /\ UNCHANGED NotBlocks

NextBlocks == ConstructAnalystBlock \/ ConstructActionBlock

SpecBlocks == InitBlocks /\ [][NextBlocks]_vars

\* ------------------------------------- the settings models, as validated
\* What a caller can pass for the fields of the action settings.
SettingsData ==
    [authorized_duration_days : (-1)..MaxDays, asset_id : PolicyAssets,
     max_amount_per_transaction : (-1)..MaxPerTx,
     cumulative_max_amount : (-1)..MaxCap]

\* ControllerSettings.model_validate: the fields are a plain int, a str and
\* two plain floats, none of them constrained.
ControllerSettings_model_validate(data) ==
    [cls |-> "ControllerSettings",
     authorized_duration_days |-> data.authorized_duration_days,
     asset_id |-> data.asset_id,
     max_amount_per_transaction |-> data.max_amount_per_transaction,
     cumulative_max_amount |-> data.cumulative_max_amount]

\* What a caller can pass for the fields of the analyst controller.
AnalystControllerData ==
    [authorized : BOOLEAN,
     authorized_duration_days : {None} \cup {Some(d) : d \in (-1)..MaxDays},
     portfolio_access : BOOLEAN, advice_allowed : BOOLEAN]

\* AnalystController.model_validate: authorized_duration_days is an
\* Optional[PositiveInt].
AnalystController_model_validate(data) ==
    IF /\ data.authorized_duration_days # None
       /\ ~(data.authorized_duration_days.value > 0)
    THEN ValidationError("Input should be greater than 0")
    ELSE [cls |-> "AnalystController", authorized |-> data.authorized,
          authorized_duration_days |-> data.authorized_duration_days,
          portfolio_access |-> data.portfolio_access,
          advice_allowed |-> data.advice_allowed]

InitSettings ==
    /\ block_instance = [block_type |-> "analyst", controller_settings |-> None]
    /\ current_cumulative_spend = 0
    /\ now = 0
    /\ request = None
    /\ proposal_input = None
    /\ compliance = None
    /\ response = NoResponse
    /\ pending = {}
    /\ replies = {}
    /\ AnalystIdle
    /\ SchemaIdle
    /\ BlocksIdle
    /\ UtilsIdle

NotSchema == <<block_instance, current_cumulative_spend, now, request, proposal_input,
               compliance, response, pending, replies, analyst_vars, blocks_vars, utils_vars>>

ValidateControllerSettings ==
    \E data \in SettingsData :
        /\ validator_call' = "ControllerSettings.model_validate"
        /\ validator_input' = data
        /\ validator_output' = ControllerSettings_model_validate(data)
        /\ UNCHANGED NotSchema

ValidateAnalystController ==
    \E data \in AnalystControllerData :
        /\ validator_call' = "AnalystController.model_validate"
        /\ validator_input' = data
        /\ validator_output' = AnalystController_model_validate(data)
        /\ UNCHANGED NotSchema

NextSettings == ValidateControllerSettings \/ ValidateAnalystController

SpecSettings == InitSettings /\ [][NextSettings]_vars

\* ------------------------------------------------------------------ utils
\* The policy side at rest, for the specifications of the utilities.
RoutesIdle ==
    /\ block_instance = [block_type |-> "analyst", controller_settings |-> None]
    /\ current_cumulative_spend = 0
    /\ now = 0
    /\ request = None
    /\ proposal_input = None
    /\ compliance = None
    /\ response = NoResponse
    /\ pending = {}
    /\ replies = {}

NotUtils == <<block_instance, current_cumulative_spend, now, request, proposal_input,
              compliance, response, pending, replies, analyst_vars, schema_vars,
              blocks_vars>>

EnsNames == {"alice.eth", "bob.eth"}
TaskIds == {"t1", "t2"}

\* UserProfile and its defaults; the notification and privacy dicts are left
\* out.
DisplayNames == {None, Some("Old Name")}
DefaultProfile == [display_name |-> None, language |-> "en"]

\* The stored document of a user, as register_user writes it.
UserDocument(ens_name, profile) == [ens_name |-> ens_name, profile |-> profile]

\* What the users collection can hold: a document for some of the names.
UserDatabases ==
    UNION { [stored -> [display_name : DisplayNames, language : {"en"}]] :
                stored \in SUBSET EnsNames }

NameError(name) == [raised |-> "NameError", reason |-> name]

\* UserModel(**data): the validator of ens_name calls re.match, and
\* blocks/models.py does not import re, so the construction ends in NameError.
UserModel(data) == NameError("re")

\* UserManager.get_user against the stored documents.
UserManager_get_user(ens_name) ==
    IF ens_name \in DOMAIN users_db
    THEN UserModel(UserDocument(ens_name, users_db[ens_name]))
    ELSE None

\* UserProfile(**data) for a stored profile.
UserProfile(data) ==
    [cls |-> "UserProfile", display_name |-> data.display_name,
     language |-> data.language]

\* A user object, as a user manager that has one hands it out.
UserObject(ens_name, profile) ==
    [cls |-> "UserModel", ens_name |-> ens_name, profile |-> UserProfile(profile)]

\* What `await self.user_manager.get_user(ens_name)` can give: the user
\* manager is the object passed to the constructor, UserManager itself or,
\* as in the tests, a stand-in that returns the user it has.
get_user_outcomes(ens_name) ==
    {UserManager_get_user(ens_name)}
    \cup IF ens_name \in DOMAIN users_db
         THEN {UserObject(ens_name, users_db[ens_name])}
         ELSE {}

\* ------------------------------------------------------ utils/user_context
\* UserContext.__init__.
UserContext_init(user) ==
    [user |-> user, _is_active |-> FALSE, _start_time |-> None,
     _additional_context |-> {}]

\* UserContext.activate.
UserContext_activate(context) ==
    [context EXCEPT !._is_active = TRUE, !._start_time = Some(now)]

\* A variant of UserContext.deactivate that leaves the flag up.
UserContext_deactivate_still_active(context) == context

\* UserContext.deactivate.
UserContext_deactivate(context) == [context EXCEPT !._is_active = FALSE]

\* UserContext.update_last_login: the calls issued after it, given those
\* issued before.
UserContext_update_last_login(context, issued) ==
    IF context._is_active
    THEN Append(issued, [fn |-> "update_last_login",
                         ens_name |-> context.user.ens_name])
    ELSE issued

\* Two coroutines, each about to enter `async with user_context(ens_name)`.
InitUserContext ==
    /\ RoutesIdle
    /\ AnalystIdle
    /\ SchemaIdle
    /\ BlocksIdle
    /\ users_db \in UserDatabases
    /\ tasks \in [TaskIds -> [pc : {"start"}, ens_name : EnsNames,
                              context : {None}, raised : {None}]]
    /\ calls = <<>>
    /\ db_manager = None

\* UserContextManager.user_context up to the yield.
EnterUserContext(t) ==
    /\ tasks[t].pc = "start"
    /\ \E user \in get_user_outcomes(tasks[t].ens_name) :
          tasks' = [tasks EXCEPT ![t] =
              IF user = None
              THEN [@ EXCEPT !.pc = "refused",
                             !.raised = ValueError("User {} not found")]
              ELSE IF IsRaised(user)
              THEN [@ EXCEPT !.pc = "faulted", !.raised = user]
              ELSE [@ EXCEPT !.pc = "body",
                             !.context = UserContext_activate(UserContext_init(user))]]
    /\ UNCHANGED <<users_db, calls, db_manager>>
    /\ UNCHANGED NotUtils

\* The body of the block uses the context: UserContext.add_context.
AddContext(t) ==
    /\ tasks[t].pc = "body"
    /\ tasks[t].context._additional_context = {}
    /\ tasks' = [tasks EXCEPT ![t].context._additional_context =
                                  {<<"test_key", "test_value">>}]
    /\ UNCHANGED <<users_db, calls, db_manager>>
    /\ UNCHANGED NotUtils

\* The block is left, at its end or by an exception of the body: the
\* finally clause of user_context.
LeaveUserContext(t) ==
    /\ tasks[t].pc = "body"
    /\ \E how \in {"done", "failed"} :
          LET context == UserContext_deactivate(tasks[t].context) IN
          /\ tasks' = [tasks EXCEPT ![t].pc = how, ![t].context = context,
                                    ![t].raised = IF how = "failed"
                                                  THEN [raised |-> "Exception",
                                                        reason |-> "body"]
                                                  ELSE None]
          /\ calls' = UserContext_update_last_login(context, calls)
    /\ UNCHANGED <<users_db, db_manager>>
    /\ UNCHANGED NotUtils

NextUserContext ==
    \E t \in TaskIds : EnterUserContext(t) \/ AddContext(t) \/ LeaveUserContext(t)

SpecUserContext == InitUserContext /\ [][NextUserContext]_vars

\* --------------------------------------------------- utils/profile_service
\* profile.model_copy(update=profile_data): the fields named in the update
\* are replaced, unvalidated; the others are kept.
model_copy(profile, update) ==
    [key \in DOMAIN profile |->
        IF key \in DOMAIN update THEN update[key] ELSE profile[key]]

\* profile.model_dump(): the profile's fields as a dict.
UserProfile_model_dump(profile) ==
    [key \in DOMAIN profile \ {"cls"} |-> profile[key]]

\* The profile data update_display_name and update_language hand to
\* update_user_profile.
NewDisplayNames == {"New Name"}
NewLanguages == {"es"}

update_display_name(display_name) == [display_name |-> Some(display_name)]

update_language(language) == [language |-> language]

ProfileUpdates ==
    [pc : {"start"}, fn : {"update_display_name"}, ens_name : EnsNames,
     profile_data : {update_display_name(n) : n \in NewDisplayNames},
     user : {None}, result : {None}]
    \cup [pc : {"start"}, fn : {"update_language"}, ens_name : EnsNames,
          profile_data : {update_language(l) : l \in NewLanguages},
          user : {None}, result : {None}]

\* collection.update_one(query, {"$set": update}) on the users collection
\* for the key "profile": the collection afterwards.
update_one_profile(db, ens_name, profile_data) ==
    IF ens_name \in DOMAIN db
    THEN [db EXCEPT ![ens_name] = profile_data]
    ELSE db

\* What DatabaseManager.update_one returns: modified_count > 0.
update_one_modified(db, ens_name, profile_data) ==
    update_one_profile(db, ens_name, profile_data) # db

\* Two coroutines, each about to call a ProfileService update.
InitProfile ==
    /\ RoutesIdle
    /\ AnalystIdle
    /\ SchemaIdle
    /\ BlocksIdle
    /\ users_db \in UserDatabases
    /\ tasks \in [TaskIds -> ProfileUpdates]
    /\ calls = <<>>
    /\ db_manager = None

\* ProfileService.update_user_profile up to the answer of get_user.
ReadUser(t) ==
    /\ tasks[t].pc = "start"
    /\ \E user \in get_user_outcomes(tasks[t].ens_name) :
          tasks' = [tasks EXCEPT ![t] =
              IF user = None
              THEN [@ EXCEPT !.pc = "done", !.result = Some(FALSE)]
              ELSE IF IsRaised(user)
              THEN [@ EXCEPT !.pc = "raised", !.result = user]
              ELSE [@ EXCEPT !.pc = "read", !.user = user]]
    /\ UNCHANGED <<users_db, calls, db_manager>>
    /\ UNCHANGED NotUtils

\* The rest of ProfileService.update_user_profile: the merged profile goes
\* to UserManager.update_user_profile, which sets the stored profile to it.
WriteProfile(t) ==
    /\ tasks[t].pc = "read"
    /\ LET updated_profile == model_copy(tasks[t].user.profile, tasks[t].profile_data)
           profile_data == UserProfile_model_dump(updated_profile)
       IN  /\ calls' = Append(calls, [fn |-> "update_user_profile", by |-> t,
                                      ens_name |-> tasks[t].ens_name,
                                      profile_data |-> profile_data])
           /\ users_db' = update_one_profile(users_db, tasks[t].ens_name, profile_data)
           /\ tasks' = [tasks EXCEPT ![t].pc = "done",
                            ![t].result = Some(update_one_modified(
                                              users_db, tasks[t].ens_name, profile_data))]
    /\ UNCHANGED db_manager
    /\ UNCHANGED NotUtils

NextProfile == \E t \in TaskIds : ReadUser(t) \/ WriteProfile(t)

SpecProfile == InitProfile /\ [][NextProfile]_vars

\* ------------------------------------------------------ utils/user_manager
\* DatabaseManager.find_one on the users collection by ens_name.
find_one(db, ens_name) ==
    IF ens_name \in DOMAIN db THEN UserDocument(ens_name, db[ens_name]) ELSE None

\* What register_user does once find_one has answered: either branch
\* constructs a UserModel first, UserModel(**existing_user) to return it or
\* UserModel(ens_name=...) to insert its dump, and the construction raises.
register_user_after_find(existing_user, ens_name) ==
    IF existing_user # None
    THEN [returned |-> UserModel(existing_user), insert |-> None]
    ELSE LET new_user == UserModel([ens_name |-> ens_name, profile |-> DefaultProfile])
         IN  IF IsRaised(new_user)
             THEN [returned |-> new_user, insert |-> None]
             ELSE [returned |-> new_user, insert |-> Some(new_user)]

\* Two coroutines, each about to call register_user.
InitRegister ==
    /\ RoutesIdle
    /\ AnalystIdle
    /\ SchemaIdle
    /\ BlocksIdle
    /\ users_db \in UserDatabases
    /\ tasks \in [TaskIds -> [pc : {"start"}, ens_name : EnsNames,
                              existing_user : {None}, result : {None}]]
    /\ calls = <<>>
    /\ db_manager = None

\* register_user up to the answer of find_one.
RegisterFind(t) ==
    /\ tasks[t].pc = "start"
    /\ tasks' = [tasks EXCEPT ![t].pc = "found",
                     ![t].existing_user = find_one(users_db, tasks[t].ens_name)]
    /\ calls' = Append(calls, [fn |-> "find_one", by |-> t,
                               ens_name |-> tasks[t].ens_name])
    /\ UNCHANGED <<users_db, db_manager>>
    /\ UNCHANGED NotUtils

\* register_user from the answer of find_one on.
RegisterStore(t) ==
    /\ tasks[t].pc = "found"
    /\ LET outcome == register_user_after_find(tasks[t].existing_user, tasks[t].ens_name)
       IN  /\ tasks' = [tasks EXCEPT ![t].pc = IF IsRaised(outcome.returned)
                                               THEN "raised" ELSE "done",
                                     ![t].result = outcome.returned]
           /\ calls' = IF outcome.insert = None
                       THEN calls
                       ELSE Append(calls, [fn |-> "insert_one", by |-> t,
                                           ens_name |-> tasks[t].ens_name])
           /\ users_db' = IF outcome.insert = None \/ tasks[t].ens_name \in DOMAIN users_db
                          THEN users_db
                          ELSE [ens_name \in DOMAIN users_db \cup {tasks[t].ens_name} |->
                                   IF ens_name \in DOMAIN users_db
                                   THEN users_db[ens_name] ELSE DefaultProfile]
    /\ UNCHANGED db_manager
    /\ UNCHANGED NotUtils

NextRegister == \E t \in TaskIds : RegisterFind(t) \/ RegisterStore(t)

SpecRegister == InitRegister /\ [][NextRegister]_vars

\* -------------------------------------------------- utils/database_manager
\* The clients one manager may construct in a run.
MaxClients == 3

DbNames == {"ampr_users", "ampr_blocks", "test_db"}
CollectionNames == {"users", "test_collection"}

NoDatabases == [db_name \in {} |-> None]

\* AsyncMongoClient(uri): a new client object, told apart by its number.
AsyncMongoClient(number) == [cls |-> "AsyncMongoClient", number |-> number]

\* client[db_name]: the database handle of that client.
Database(client, db_name) == [cls |-> "Database", client |-> client, name |-> db_name]

\* DatabaseManager.__init__; created counts the clients constructed so far
\* and last keeps the latest call and what it returned.
DatabaseManager_init ==
    [client |-> None, _databases |-> NoDatabases, created |-> 0, last |-> None]

\* DatabaseManager.connect: the manager afterwards.
DatabaseManager_connect(self) ==
    IF self.client = None
    THEN [self EXCEPT !.client = AsyncMongoClient(self.created + 1),
                      !.created = self.created + 1]
    ELSE self

\* DatabaseManager.get_database: the manager afterwards; the handle
\* returned is its _databases[db_name].
DatabaseManager_get_database(self, db_name) ==
    LET connected == IF self.client = None THEN DatabaseManager_connect(self) ELSE self
    IN  IF db_name \notin DOMAIN connected._databases
        THEN [connected EXCEPT !._databases =
                 [name \in DOMAIN connected._databases \cup {db_name} |->
                     IF name = db_name
                     THEN Database(connected.client, db_name)
                     ELSE connected._databases[name]]]
        ELSE connected

\* A variant of close that drops the client and keeps the cached handles.
DatabaseManager_close_keeping_cache(self) ==
    IF self.client # None
    THEN [self EXCEPT !.client = None]
    ELSE self

\* DatabaseManager.close: the manager afterwards.
DatabaseManager_close(self) ==
    IF self.client # None
    THEN [self EXCEPT !.client = None, !._databases = NoDatabases]
    ELSE self

\* Whether the call would construct a client.
Connects(self) == self.client = None

InitDatabase ==
    /\ RoutesIdle
    /\ AnalystIdle
    /\ SchemaIdle
    /\ BlocksIdle
    /\ users_db = None
    /\ tasks = None
    /\ calls = <<>>
    /\ db_manager = DatabaseManager_init

\* await manager.connect()
Connect ==
    /\ Connects(db_manager) => db_manager.created < MaxClients
    /\ LET self == DatabaseManager_connect(db_manager)
       IN  db_manager' = [self EXCEPT !.last = [fn |-> "connect", returned |-> self.client]]
    /\ UNCHANGED <<users_db, tasks, calls>>
    /\ UNCHANGED NotUtils

\* await manager.get_database(db_name); connect does not suspend, so the
\* call is one step.
GetDatabase ==
    /\ Connects(db_manager) => db_manager.created < MaxClients
    /\ \E db_name \in DbNames :
          LET self == DatabaseManager_get_database(db_manager, db_name)
          IN  db_manager' = [self EXCEPT !.last = [fn |-> "get_database",
                                                   returned |-> self._databases[db_name]]]
    /\ UNCHANGED <<users_db, tasks, calls>>
    /\ UNCHANGED NotUtils

\* await manager.get_collection(db_name, collection_name)
GetCollection ==
    /\ Connects(db_manager) => db_manager.created < MaxClients
    /\ \E db_name \in DbNames, collection_name \in CollectionNames :
          LET self == DatabaseManager_get_database(db_manager, db_name)
          IN  db_manager' = [self EXCEPT !.last =
                                [fn |-> "get_collection",
                                 returned |-> [cls |-> "Collection",
                                               database |-> self._databases[db_name],
                                               name |-> collection_name]]]
    /\ UNCHANGED <<users_db, tasks, calls>>
    /\ UNCHANGED NotUtils

\* await manager.close()
Close ==
    /\ LET self == DatabaseManager_close(db_manager)
       IN  db_manager' = [self EXCEPT !.last = [fn |-> "close", returned |-> None]]
    /\ UNCHANGED <<users_db, tasks, calls>>
    /\ UNCHANGED NotUtils

NextDatabase == Connect \/ GetDatabase \/ GetCollection \/ Close

SpecDatabase == InitDatabase /\ [][NextDatabase]_vars

\* ================================================================= claims
Settings == block_instance.controller_settings

\* A step in which the handler ran and answered something new or spent.
HandlerStep ==
    \/ request' # request
    \/ response' # response
    \/ current_cumulative_spend' # current_cumulative_spend

\* The reason the claims give a proposal refused for an expired window;
\* the manager has no such reason.
AuthorizationExpired == "Authorization has expired"

\* The checks in the order the claims give them, the window last.
FirstFailingCheck(proposal, settings, spent, expired) ==
    IF proposal.asset_id # settings.asset_id THEN AssetMismatch
    ELSE IF ~(proposal.amount > 0) THEN NonPositiveAmount
    ELSE IF ~(proposal.amount <= settings.max_amount_per_transaction)
    THEN PerTransactionLimitExceeded
    ELSE IF ~(spent + proposal.amount <= settings.cumulative_max_amount)
    THEN CumulativeLimitExceeded
    ELSE IF expired THEN AuthorizationExpired
    ELSE Compliant

\* C1: for an action block started at spend 0 with a positive cap, the
\* cumulative spend never exceeds cumulative_max_amount, whatever proposals
\* were submitted.
C1_SpendWithinCap ==
    IsActionBlock =>
        /\ current_cumulative_spend >= 0
        /\ current_cumulative_spend <= Settings.cumulative_max_amount

\* C1's example: cap 10.0, per transaction 1.0; from 9.5 a 0.4 proposal was
\* accepted (9.9) and the next 0.4 proposal is refused for the cumulative
\* limit, 10.3 against 10.0.
C1_Witness ==
    /\ IsActionBlock
    /\ Settings = DEFAULT_CONTROL_SETTINGS
    /\ current_cumulative_spend = 99
    /\ response.status = "rejected_by_library_core"
    /\ response.reason = Reason(CumulativeLimitExceeded, <<103, 100>>)
    /\ response.proposal.amount = 4

\* C2: two requests in flight, each acceptable on its own and too much
\* together: once both are handled, in either order, exactly one was
\* accepted and one rejected.
C2_ExactlyOneAccepted ==
    pending = {} =>
        /\ Cardinality({r \in replies : r[2] = "proposed"}) = 1
        /\ Cardinality({r \in replies : r[2] = "rejected_by_library_core"}) = 1
        /\ response.status = "rejected_by_library_core"
        /\ response.reason.msg = CumulativeLimitExceeded

C2_Witness ==
    /\ pending = {}
    /\ <<"p2", "proposed">> \in replies
    /\ <<"p1", "rejected_by_library_core">> \in replies

\* C3: the reason is_proposal_compliant returns is that of the first
\* failing check in the order asset, amount > 0, per-transaction limit,
\* cumulative limit, authorization window; an asset mismatch is reported
\* before any amount check.
C3_ReasonOfFirstFailingCheck ==
    compliance # None =>
        LET first == FirstFailingCheck(proposal_input, Settings,
                                       current_cumulative_spend, window_expired)
        IN  /\ compliance.reason.msg = first
            /\ compliance.is_compliant = (first = Compliant)

\* C4 as stated: an amount <= 0 is always refused with the non-positive
\* reason, whatever the asset_id, the settings and the spend.
C4_NonPositiveWhateverTheAsset ==
    (compliance # None /\ proposal_input.amount <= 0) =>
        /\ ~compliance.is_compliant
        /\ compliance.reason = Reason(NonPositiveAmount, <<>>)

\* C4 as amended: an amount <= 0 is always refused, whatever the settings
\* and the spend; with the non-positive reason when the asset_id is the
\* policy's, and with the asset-mismatch reason when it is not.
C4_NonPositiveRejected ==
    (compliance # None /\ proposal_input.amount <= 0) =>
        /\ ~compliance.is_compliant
        /\ IF proposal_input.asset_id = Settings.asset_id
           THEN compliance.reason = Reason(NonPositiveAmount, <<>>)
           ELSE compliance.reason.msg = AssetMismatch

C4_Witness ==
    /\ compliance # None
    /\ proposal_input.amount = 0
    /\ proposal_input.asset_id = Settings.asset_id
    /\ current_cumulative_spend > Settings.cumulative_max_amount
    /\ compliance = [is_compliant |-> FALSE,
                     reason |-> Reason(NonPositiveAmount, <<>>)]

\* C5: in the handler of an action block an accepted proposal adds exactly
\* its amount to the counter, and a proposal rejected by the manager or by
\* the block's pre-check leaves the counter as it was.
C5_SpendMovesByAcceptedAmount ==
    [][(IsActionBlock /\ HandlerStep) =>
          IF response'.status = "proposed"
          THEN current_cumulative_spend' =
                   current_cumulative_spend + proposal_input'.amount
          ELSE current_cumulative_spend' = current_cumulative_spend]_vars

C5_Witness ==
    /\ IsActionBlock
    /\ response.status = "proposed"
    /\ current_cumulative_spend > response.proposal.amount

\* C6: with the asset, positivity and per-transaction checks passed, a
\* proposal that brings the spend exactly to the cap is accepted, and one
\* that brings it above the cap, by one unit or more, is refused for the
\* cumulative limit.
C6_CumulativeBoundary ==
    (/\ compliance # None
     /\ proposal_input.asset_id = Settings.asset_id
     /\ proposal_input.amount > 0
     /\ proposal_input.amount <= Settings.max_amount_per_transaction) =>
        LET total == current_cumulative_spend + proposal_input.amount IN
        /\ total = Settings.cumulative_max_amount => compliance.is_compliant
        /\ total > Settings.cumulative_max_amount =>
              /\ ~compliance.is_compliant
              /\ compliance.reason.msg = CumulativeLimitExceeded

C6_Witness ==
    /\ compliance # None
    /\ proposal_input.amount > 0
    /\ current_cumulative_spend > 0
    /\ current_cumulative_spend + proposal_input.amount
          = Settings.cumulative_max_amount
    /\ compliance.is_compliant

\* C7: no spend is applied once the authorization window has expired.
C7_NoSpendAfterExpiry ==
    [][window_expired =>
          current_cumulative_spend' = current_cumulative_spend]_vars

\* C8: a spend is applied only for an accepted proposal, the one that was
\* evaluated, and a proposal sent again with the same identifier right after
\* it was accepted does not add to the spend again.
C8_AppliedOncePerProposal ==
    [][/\ current_cumulative_spend' # current_cumulative_spend =>
              /\ compliance'.is_compliant
              /\ response'.status = "proposed"
              /\ response'.proposal = model_dump(TransactionProposal(request'))
       /\ (IsActionBlock /\ response.status = "proposed" /\ request' = request) =>
              current_cumulative_spend' = current_cumulative_spend]_vars

\* The spend the handler holds against a proposal: the one module-level
\* counter, whatever block_id the proposal names.
cumulative_spend_of(block_id) == current_cumulative_spend

\* C9: accepting a proposal of one block_id does not change the spend held
\* against another block_id, and a proposal of a block_id that has spent
\* nothing is evaluated as against a spend of 0, whatever another block_id
\* has spent (here: the whole spend so far is one accepted proposal of
\* another block_id).
C9_OtherInstancesUntouched ==
    [][/\ \A b \in BlockIds :
              (HandlerStep /\ proposal_input' # None /\ proposal_input'.block_id # b) =>
                  cumulative_spend_of(b)' = cumulative_spend_of(b)
       /\ (/\ IsActionBlock
           /\ HandlerStep
           /\ response.status = "proposed"
           /\ current_cumulative_spend = response.proposal.amount
           /\ proposal_input' # None
           /\ proposal_input'.block_id # response.proposal.block_id) =>
              compliance' = is_proposal_compliant(proposal_input', Settings, 0)]_vars

\* C10: the cumulative spend never decreases, and it changes only on the
\* acceptance path of the compliance check.
C10_SpendNeverDecreases ==
    [][/\ current_cumulative_spend' >= current_cumulative_spend
       /\ current_cumulative_spend' # current_cumulative_spend =>
              /\ IsActionBlock
              /\ compliance'.is_compliant
              /\ response'.status = "proposed"]_vars

C10_Witness ==
    /\ IsActionBlock
    /\ current_cumulative_spend > 0
    /\ response.status = "rejected_by_library_core"
    /\ now > 0


\* The analyst checks in the order the claims give them: authorized, the
\* days when present, the operation type, then the attached message.
FirstFailingOperationCheck(policy, op) ==
    IF ~policy.authorized THEN OperationNotAuthorized
    ELSE IF /\ policy.authorized_duration_days # None
            /\ ~(policy.authorized_duration_days.value > 0)
    THEN OperationAuthorizationExpired
    ELSE IF op.operation_type # "chat_message" THEN InvalidOperationType
    ELSE IF op.message_type = None THEN Compliant
    ELSE IF op.message_type.value \notin {"advice", "analysis"}
    THEN InvalidMessageType
    ELSE IF op.message_type.value = "advice" /\ ~policy.advice_allowed
    THEN AdviceNotPermitted
    ELSE Compliant

\* An operation was checked against an analyst policy.
OperationChecked ==
    /\ operation # None
    /\ analyst_controller # None
    /\ analyst_controller.cls = "AnalystController"

\* C11: the analyst check evaluates authorized, then the days (only when
\* present), then operation_type = 'chat_message' (by equality), then the
\* message checks; the reason returned is that of the first check in this
\* order that fails, and the operation is compliant exactly when none fails.
C11_ReasonOfFirstFailingOperationCheck ==
    OperationChecked =>
        LET first == FirstFailingOperationCheck(analyst_controller, operation) IN
        /\ operation_compliance.reason.msg = first
        /\ operation_compliance.is_compliant = (first = Compliant)

\* C12: for an authorized, unexpired policy and a chat_message operation, an
\* attached message of a type other than advice or analysis is refused as an
\* unsupported type, advice is refused exactly when advice_allowed is false,
\* and everything else is accepted.
C12_MessageChecks ==
    ( /\ OperationChecked
      /\ analyst_controller.authorized
      /\ \/ analyst_controller.authorized_duration_days = None
         \/ analyst_controller.authorized_duration_days.value > 0
      /\ operation.operation_type = "chat_message" )
    => IF /\ operation.message_type # None
          /\ operation.message_type.value \notin {"advice", "analysis"}
       THEN /\ ~operation_compliance.is_compliant
            /\ operation_compliance.reason.msg = InvalidMessageType
       ELSE IF /\ operation.message_type # None
               /\ operation.message_type.value = "advice"
               /\ ~analyst_controller.advice_allowed
       THEN /\ ~operation_compliance.is_compliant
            /\ operation_compliance.reason.msg = AdviceNotPermitted
       ELSE /\ operation_compliance.is_compliant
            /\ operation_compliance.reason.msg = Compliant


\* C13: analyst activity changes no state: checking an analyst operation
\* and handling an analyst block's proposal leave the cumulative spend, the
\* block instance and the analyst controller as they were, whatever the
\* decision.
C13_AnalystActivityChangesNoState ==
    [][IsAnalystBlock =>
          /\ current_cumulative_spend' = current_cumulative_spend
          /\ block_instance' = block_instance
          /\ analyst_controller' = analyst_controller]_vars

\* An analyst block whose controller has a day left had a proposal handled
\* and an operation accepted; nothing was spent and the day is still there.
C13_Witness ==
    /\ IsAnalystBlock
    /\ response.status = "proposed"
    /\ operation # None
    /\ analyst_controller.cls = "AnalystController"
    /\ analyst_controller.authorized_duration_days = Some(1)
    /\ operation_compliance.is_compliant
    /\ current_cumulative_spend = 0

\* C14: the settings of an instance are immutable: no proposal and no
\* operation submitted changes the controller settings of the block
\* instance or the analyst controller; of the instance's state only the
\* cumulative spend moves.
C14_SettingsImmutable ==
    [][/\ block_instance' = block_instance
       /\ analyst_controller' = analyst_controller]_vars

\* An action block has accepted proposals up to its cap.
C14_Witness ==
    /\ IsActionBlock
    /\ response.status = "proposed"
    /\ current_cumulative_spend > 0
    /\ current_cumulative_spend = Settings.cumulative_max_amount


\* What a call gives when it returns a decision as data: a pair of the flag
\* and a reason.
IsDecisionPair(result) ==
    /\ DOMAIN result = {"is_compliant", "reason"}
    /\ result.is_compliant \in BOOLEAN
    /\ DOMAIN result.reason = {"msg", "args"}

\* C15: rejections are data, never faults: is_proposal_compliant and
\* is_operation_compliant always return a (flag, reason) pair, the reason of
\* a refusal included, and the handler never raises: it answers a refusal
\* with a rejection status and the reason, an acceptance with the same
\* structure under another status.
C15_RejectionsAreData ==
    /\ compliance # None => IsDecisionPair(compliance)
    /\ operation_compliance # None => IsDecisionPair(operation_compliance)
    /\ response.status # "raised"
    /\ proposal_input # None =>
          /\ response.proposal = model_dump(proposal_input)
          /\ response.status \in {"proposed", "rejected_by_library_core",
                                  "rejected_by_block_pre_check"}
          /\ response.status # "proposed" => response.reason # None
          /\ (compliance # None /\ ~compliance.is_compliant) =>
                /\ response.status = "rejected_by_library_core"
                /\ response.reason = compliance.reason

\* An authorized controller of the wrong class was asked about advice and the
\* refusal came back as a pair.
C15_Witness ==
    /\ operation # None
    /\ analyst_controller.cls = "BaseController"
    /\ analyst_controller.authorized
    /\ analyst_controller.authorized_duration_days = None
    /\ operation = [operation_type |-> "chat_message", message_type |-> Some("advice")]
    /\ IsDecisionPair(operation_compliance)
    /\ ~operation_compliance.is_compliant


\* The latest call was Manifest.model_validate with the fee given as a list.
DecodedFeeList ==
    /\ validator_call = "Manifest.model_validate"
    /\ Has(validator_input, "fee")
    /\ IsList(validator_input.fee)

\* C16: decoding a manifest whose fee is a list of two or more elements
\* fails with a validation error; decoding one whose fee is the one-element
\* list [f] gives what decoding it with the scalar f gives.
C16_FeeListDecoding ==
    DecodedFeeList =>
        /\ Len(validator_input.fee.items) >= 2 =>
              /\ IsRaised(validator_output)
              /\ validator_output.raised = "ValidationError"
        /\ Len(validator_input.fee.items) = 1 =>
              validator_output =
                  Manifest_model_validate(
                      [validator_input EXCEPT !.fee = validator_input.fee.items[1]])

\* A manifest with a one-element fee list was decoded into a manifest that
\* has that fee.
C16_Witness ==
    /\ DecodedFeeList
    /\ Len(validator_input.fee.items) = 1
    /\ ~IsRaised(validator_output)
    /\ validator_output.fee # None
    /\ validator_output.fee.cls = "RecurringFixedFee"

\* C17: decoding a manifest whose fee is an empty list succeeds and gives
\* the manifest without a fee that decoding it with the fee key absent
\* gives.
C17_EmptyFeeListIsNoFee ==
    ( /\ DecodedFeeList
      /\ Len(validator_input.fee.items) = 0
      /\ validator_input.block_type \in BlockTypes )
    => /\ ~IsRaised(validator_output)
       /\ validator_output.fee = None
       /\ validator_output =
              Manifest_model_validate([block_type |-> validator_input.block_type])

\* C18: validate_fee routes on the fee_type tag: what it returns for data
\* tagged fixed_one_time is a OneTimeFixedFee, for data tagged
\* fixed_recurring a RecurringFixedFee, and data with another tag or none
\* is rejected with a validation error.
C18_FeeRoutedOnTag ==
    validator_call = "validate_fee" =>
        LET tag == IF Has(validator_input, "fee_type")
                   THEN validator_input.fee_type ELSE Missing
        IN  IF tag = FIXED_ONE_TIME
            THEN ~IsRaised(validator_output) =>
                     validator_output.cls = "OneTimeFixedFee"
            ELSE IF tag = FIXED_RECURRING
            THEN ~IsRaised(validator_output) =>
                     validator_output.cls = "RecurringFixedFee"
            ELSE /\ IsRaised(validator_output)
                 /\ validator_output.raised = "ValidationError"

\* The fee a call returned, if it returned one.
DecodedFee ==
    IF validator_call = "none" \/ IsRaised(validator_output) THEN None
    ELSE IF validator_call = "validate_fee" THEN validator_output
    ELSE IF validator_call = "validate_config"
    THEN validator_output.manifest.fee
    ELSE validator_output.fee

\* C19: a fee is accepted only with an amount > 0 and, when recurring, an
\* interval among monthly, quarterly, annually; a manifest whose fee dict
\* has an amount <= 0, or is recurring with another interval or none, is
\* refused with a validation error.
C19_AmountAndInterval ==
    /\ DecodedFee # None =>
          /\ DecodedFee.amount > 0
          /\ DecodedFee.cls = "RecurringFixedFee" =>
                DecodedFee.interval \in RecurringInterval
    /\ ( /\ validator_call = "Manifest.model_validate"
         /\ Has(validator_input, "fee")
         /\ validator_input.fee # None
         /\ ~IsList(validator_input.fee)
         /\ ~IsObject(validator_input.fee)
         /\ \/ validator_input.fee.amount <= 0
            \/ /\ Has(validator_input.fee, "fee_type")
               /\ validator_input.fee.fee_type = FIXED_RECURRING
               /\ \/ ~Has(validator_input.fee, "interval")
                  \/ validator_input.fee.interval \notin RecurringInterval )
       => /\ IsRaised(validator_output)
          /\ validator_output.raised = "ValidationError"

\* A one-time fee of amount 0 that is right in everything else was refused
\* with a validation error.
C19_Witness ==
    /\ validator_call = "Manifest.model_validate"
    /\ validator_input =
           [block_type |-> "action",
            fee |-> [fee_currency |-> "BTC", amount |-> 0,
                     fee_type |-> FIXED_ONE_TIME]]
    /\ IsRaised(validator_output)
    /\ validator_output.raised = "ValidationError"

\* C20: dumping a valid fee and decoding the dict with validate_fee gives an
\* equal fee; so validate_config succeeds where the manifest decodes, with a
\* fee entry equal to the manifest's fee when it has one and no fee entry
\* when it has none.
C20_FeeRoundTrip ==
    /\ DecodedFee # None =>
          validate_fee(Fee_model_dump(DecodedFee)) = DecodedFee
    /\ validator_call = "validate_config" =>
          LET manifest == Manifest_model_validate(validator_input) IN
          /\ IsRaised(validator_output) <=> IsRaised(manifest)
          /\ ~IsRaised(validator_output) =>
                /\ validator_output.manifest = manifest
                /\ IF manifest.fee # None
                   THEN /\ Has(validator_output, "fee")
                        /\ validator_output.fee = manifest.fee
                   ELSE ~Has(validator_output, "fee")

\* validate_config returned a recurring fee beside the manifest that has it.
C20_Witness ==
    /\ validator_call = "validate_config"
    /\ ~IsRaised(validator_output)
    /\ Has(validator_output, "fee")
    /\ validator_output.fee.cls = "RecurringFixedFee"
    /\ validator_output.fee = validator_output.manifest.fee


\* C21: decoding a manifest accepts a block_type only out of analyst,
\* action and custodial; every other value is refused with a validation
\* error and no Manifest comes out.
C21_BlockTypeEnumerated ==
    validator_call = "Manifest.model_validate" =>
        /\ ~IsRaised(validator_output) =>
              /\ validator_output.block_type \in {"analyst", "action", "custodial"}
              /\ validator_output.block_type = validator_input.block_type
        /\ validator_input.block_type \notin {"analyst", "action", "custodial"} =>
              /\ IsRaised(validator_output)
              /\ validator_output.raised = "ValidationError"

\* A manifest of block type "agent" that is right in everything else was
\* refused with a validation error.
C21_Witness ==
    /\ validator_call = "Manifest.model_validate"
    /\ validator_input = [block_type |-> "agent"]
    /\ IsRaised(validator_output)
    /\ validator_output.raised = "ValidationError"


\* C22: an AnalystBlock is constructed exactly when the manifest's block_type
\* is analyst, an ActionBlock exactly when it is action; otherwise the
\* constructor raises ValueError and nothing of a block, neither manifest nor
\* control settings, is set up.
C22_ConstructedForOwnBlockType ==
    constructor_call # None =>
        LET wanted == IF constructor_call.cls = "AnalystBlock"
                      THEN "analyst" ELSE "action"
        IN  IF constructor_call.manifest.block_type = wanted
            THEN /\ ~IsRaised(block)
                 /\ block.cls = constructor_call.cls
                 /\ block.manifest = constructor_call.manifest
                 /\ constructor_call.cls = "ActionBlock" =>
                       block.control_settings = constructor_call.control_settings
            ELSE /\ IsRaised(block)
                 /\ block.raised = "ValueError"
                 /\ ~Has(block, "manifest")
                 /\ ~Has(block, "control_settings")

\* An ActionBlock was asked for with an analyst manifest and the constructor
\* raised ValueError.
C22_Witness ==
    /\ constructor_call # None
    /\ constructor_call.cls = "ActionBlock"
    /\ constructor_call.manifest.block_type = "analyst"
    /\ IsRaised(block)
    /\ block.raised = "ValueError"


\* C23: every settings value that is accepted has strictly positive money and
\* duration fields: max_amount_per_transaction > 0, cumulative_max_amount > 0
\* and, when present, authorized_duration_days > 0, for the action settings
\* and for the analyst controller alike.
C23_AcceptedSettingsPositive ==
    /\ ( /\ validator_call = "ControllerSettings.model_validate"
         /\ ~IsRaised(validator_output) )
       => /\ validator_output.max_amount_per_transaction > 0
          /\ validator_output.cumulative_max_amount > 0
          /\ validator_output.authorized_duration_days > 0
    /\ ( /\ validator_call = "AnalystController.model_validate"
         /\ ~IsRaised(validator_output) )
       => \/ validator_output.authorized_duration_days = None
          \/ validator_output.authorized_duration_days.value > 0


\* C24: a context got from user_context is active all through the body of the
\* block and inactive once the block is left, at its end or by an exception;
\* for a user that is not found ValueError is raised and no context is ever
\* activated.
C24_ActiveExactlyInsideBlock ==
    \A t \in TaskIds :
        /\ tasks[t].pc = "body" =>
              /\ tasks[t].context # None
              /\ tasks[t].context._is_active
              /\ tasks[t].context.user.ens_name = tasks[t].ens_name
        /\ tasks[t].pc \in {"done", "failed"} =>
              /\ tasks[t].context # None
              /\ ~tasks[t].context._is_active
        /\ tasks[t].ens_name \notin DOMAIN users_db =>
              /\ tasks[t].pc \in {"start", "refused"}
              /\ tasks[t].context = None
              /\ tasks[t].pc = "refused" => tasks[t].raised.raised = "ValueError"

\* One block was left by an exception with its context inactive, the other
\* was refused for a user that is not stored.
C24_Witness ==
    /\ tasks["t1"].pc = "failed"
    /\ ~tasks["t1"].context._is_active
    /\ tasks["t2"].pc = "refused"
    /\ tasks["t2"].context = None

\* The blocks that were left for the user ens_name, and the update_last_login
\* calls issued for it.
BlocksLeft(ens_name) ==
    {t \in TaskIds : tasks[t].pc \in {"done", "failed"} /\ tasks[t].ens_name = ens_name}

LastLoginUpdates(ens_name) ==
    {i \in 1..Len(calls) : calls[i] = [fn |-> "update_last_login", ens_name |-> ens_name]}

\* C27: leaving a user_context block updates the user's last login: for
\* every block left, at its end or by an exception, update_last_login was
\* issued exactly once for that user's ens_name.
C27_LastLoginUpdatedOnExit ==
    \A ens_name \in EnsNames :
        Cardinality(LastLoginUpdates(ens_name)) = Cardinality(BlocksLeft(ens_name))


\* C26: in the endpoint the manager's check and the block's pre-check agree:
\* whatever the manager accepts against the block's settings the block
\* answers with "proposed", so "rejected_by_block_pre_check" never comes out
\* of the endpoint and every proposal the manager accepted is added to the
\* cumulative spend.
C26_ManagerAndPreCheckAgree ==
    [][ /\ response'.status # "rejected_by_block_pre_check"
        /\ (HandlerStep /\ IsActionBlock /\ compliance' # None /\ compliance'.is_compliant) =>
              /\ response'.status = "proposed"
              /\ ActionBlock_propose_transaction(Settings, proposal_input').status = "proposed"
              /\ current_cumulative_spend' =
                     current_cumulative_spend + proposal_input'.amount ]_vars

\* A proposal of exactly the per-transaction limit went through both checks
\* and was counted.
C26_Witness ==
    /\ IsActionBlock
    /\ compliance # None
    /\ compliance.is_compliant
    /\ response.status = "proposed"
    /\ proposal_input.amount = Settings.max_amount_per_transaction
    /\ current_cumulative_spend >= proposal_input.amount


\* The update_user_profile calls the coroutine t issued.
ProfileCallsBy(t) ==
    {i \in 1..Len(calls) : calls[i].fn = "update_user_profile" /\ calls[i].by = t}

\* C25: update_display_name(ens_name, n) for an existing user forwards to
\* update_user_profile exactly once, with profile data holding the changed
\* field only, {display_name: n}; for a user that does not exist it returns
\* False and issues no update.
C25_DisplayNameForwardedAlone ==
    \A t \in TaskIds :
        (tasks[t].fn = "update_display_name" /\ tasks[t].pc = "done") =>
            IF tasks[t].ens_name \in DOMAIN users_db
            THEN /\ Cardinality(ProfileCallsBy(t)) = 1
                 /\ \A i \in ProfileCallsBy(t) :
                       /\ calls[i].ens_name = tasks[t].ens_name
                       /\ calls[i].profile_data = tasks[t].profile_data
            ELSE /\ tasks[t].result = Some(FALSE)
                 /\ ProfileCallsBy(t) = {}

\* C30: profile updates are not lost: once two concurrent updates of
\* different fields of the same stored user have both returned, the stored
\* profile holds both new values, however their reads and writes interleaved.
C30_NoLostProfileUpdate ==
    \A t1, t2 \in TaskIds :
        ( /\ tasks[t1].pc = "done" /\ tasks[t2].pc = "done"
          /\ tasks[t1].fn = "update_display_name" /\ tasks[t2].fn = "update_language"
          /\ tasks[t1].ens_name = tasks[t2].ens_name
          /\ tasks[t1].ens_name \in DOMAIN users_db ) =>
            /\ users_db[tasks[t1].ens_name].display_name = tasks[t1].profile_data.display_name
            /\ users_db[tasks[t1].ens_name].language = tasks[t2].profile_data.language


\* The insert_one calls issued for ens_name.
InsertsFor(ens_name) ==
    {i \in 1..Len(calls) : calls[i].fn = "insert_one" /\ calls[i].ens_name = ens_name}

\* C29: register_user inserts only for an ens_name with no stored user: a
\* call for a registered ens_name returns the stored user and inserts
\* nothing, and two concurrent calls for the same unregistered ens_name
\* issue at most one insert_one between them.
C29_InsertOnlyForUnregistered ==
    /\ \A t \in TaskIds :
          (tasks[t].pc \in {"done", "raised"} /\ tasks[t].existing_user # None) =>
              /\ ~IsRaised(tasks[t].result)
              /\ tasks[t].result.ens_name = tasks[t].ens_name
              /\ \A i \in 1..Len(calls) : calls[i].fn = "insert_one" => calls[i].by # t
    /\ \A ens_name \in EnsNames : Cardinality(InsertsFor(ens_name)) <= 1


\* The cache of a manager is sound: handles are kept only while a client is
\* set, each under its own name and got from that client.
CacheFromCurrentClient(self) ==
    \A db_name \in DOMAIN self._databases :
        /\ self.client # None
        /\ self._databases[db_name] = Database(self.client, db_name)

\* C28: whatever the sequence of connect, get_database, get_collection and
\* close: a client is constructed only when none is set, a cached database
\* handle exists only while the client is set and comes from that client,
\* close leaves the client unset and the cache empty, and a get_database
\* after it connects again and answers from the new client.
C28_ClientAndCacheConsistent ==
    [][ /\ CacheFromCurrentClient(db_manager')
        /\ db_manager'.created # db_manager.created =>
              /\ db_manager.client = None
              /\ db_manager'.created = db_manager.created + 1
              /\ db_manager'.client = AsyncMongoClient(db_manager'.created)
        /\ (db_manager.client # None /\ db_manager'.last.fn # "close") =>
              db_manager'.client = db_manager.client
        /\ db_manager'.last.fn = "close" =>
              /\ db_manager'.client = None
              /\ db_manager'._databases = NoDatabases
        /\ db_manager'.last.fn = "get_database" =>
              /\ db_manager'.client # None
              /\ db_manager'.last.returned.client = db_manager'.client
              /\ db_manager.client = None =>
                    db_manager'.created = db_manager.created + 1 ]_vars

\* After a close, get_database has connected again: the second client is
\* set and the handle cached comes from it.
C28_Witness ==
    /\ db_manager.created = 2
    /\ db_manager.last.fn = "get_database"
    /\ db_manager.client = AsyncMongoClient(2)
    /\ db_manager._databases # NoDatabases

=============================================================================
